---- MODULE Spec2Model ----
(***************************************************************************)
(* FrozenList (src/frozenlist/_frozenlist.pyx): a list wrapper with an     *)
(* atomic `_frozen` flag.  Containers are objects of a small heap; each    *)
(* holds a reference `_items` to a list object and the flag `_frozen`.     *)
(* Item values are small integers (positive) or references to containers   *)
(* (negative), so nested and cyclic structures exist.                      *)
(***************************************************************************)
EXTENDS Integers, Sequences, FiniteSets, TLC

\* ------------------------------------------------------------------ bounds
MaxLen == 2

\* ------------------------------------------------------------------ values
\* Two containers, x and y, and the caller's own plain sequence object (a list
\* or a tuple).
Obj == {1, 2}
NObj == Cardinality(Obj)
UserObj == NObj + 1
\* The objects a deep copy creates: one more than there are containers to copy.
CopyObj == (UserObj + 1)..(UserObj + NObj + 1)
Heap == Obj \cup CopyObj
LId == Heap \cup {UserObj}
IntVal == {1, 2}
Ref(c) == 0 - c
IsRef(v) == v < 0
Deref(v) == 0 - v
Val == IntVal \cup {Ref(c) : c \in Obj}
None == 0
\* Python's bool is an int: True == 1, False == 0.
PyBool(b) == IF b THEN 1 ELSE 0

SeqsUpTo(S, n) == UNION {[1..k -> S] : k \in 0..n}
\* Indexes: in range from either end, and out of range at either end.
Idx == {0 - MaxLen - 1, 0 - 1, 0, MaxLen}

OK == "ok"
FrozenErr == "RuntimeError: Cannot modify frozen list."
HashErr == "RuntimeError: Cannot hash unfrozen list."
IndexError == "IndexError"
ValueError == "ValueError"
TypeError == "TypeError"
MemoryError == "MemoryError"
\* unbounded recursion: RecursionError, or the C stack overflowing
RecursionError == "RecursionError"

VARIABLES
    lists,      \* list objects: LId -> sequence of values
    _items,     \* FrozenList._items: Heap -> LId
    _frozen,    \* FrozenList._frozen: Heap -> BOOLEAN
    res,        \* outcome of the last call: operation, receiver, error, return value
    pend,       \* the mutating call that passed its guard and is inside a callback
    froze,      \* history: the containers on which freeze() has returned
    ukind,      \* kind of the caller's sequence object: "list" or "tuple"
    memo,       \* the memo of the deep copy: source container -> its copy, or None
    stack,      \* the __deepcopy__ calls in progress, innermost last
    top         \* the finished top-level deep copy: source and result

aux == <<ukind, memo, stack, top>>
vars == <<lists, _items, _frozen, res, pend, froze, ukind, memo, stack, top>>

\* ------------------------------------------------------------- list object
\* Results of an operation of the backing list: new items, error, return value.
Done(s) == [items |-> s, err |-> OK, ret |-> None]
Ret(s, v) == [items |-> s, err |-> OK, ret |-> v]
Raise(s, e) == [items |-> s, err |-> e, ret |-> None]

\* Python index normalisation: a negative index counts from the end.
NormIdx(s, i) == IF i < 0 THEN i + Len(s) ELSE i
InRange(s, i) == NormIdx(s, i) >= 0 /\ NormIdx(s, i) < Len(s)
\* 0-based removal and insertion
RemoveAt(s, k) == SubSeq(s, 1, k) \o SubSeq(s, k + 2, Len(s))
InsertAt(s, k, v) == SubSeq(s, 1, k) \o <<v>> \o SubSeq(s, k + 1, Len(s))
Clamp(s, i) ==
    LET n == NormIdx(s, i)
    IN IF n < 0 THEN 0 ELSE IF n > Len(s) THEN Len(s) ELSE n
Reversed(s) == [k \in 1..Len(s) |-> s[Len(s) + 1 - k]]
Absent(s, v) == \A k \in 1..Len(s) : s[k] # v
IndexOf(s, v) ==
    IF \E k \in 1..Len(s) : s[k] = v
    THEN (CHOOSE k \in 1..Len(s) : s[k] = v /\ \A j \in 1..(k - 1) : s[j] # v) - 1
    ELSE 0 - 1

list_setitem(s, i, v) ==
    IF InRange(s, i)
    THEN Done([s EXCEPT ![NormIdx(s, i) + 1] = v])
    ELSE Raise(s, IndexError)
list_delitem(s, i) ==
    IF InRange(s, i) THEN Done(RemoveAt(s, NormIdx(s, i))) ELSE Raise(s, IndexError)
\* s[lo:hi] = vals and del s[lo:hi], step 1: bounds are clamped, never an error
list_setslice(s, lo, hi, vals) ==
    LET a == Clamp(s, lo)
        b == IF Clamp(s, hi) < a THEN a ELSE Clamp(s, hi)
    IN Done(SubSeq(s, 1, a) \o vals \o SubSeq(s, b + 1, Len(s)))
list_insert(s, pos, v) == Done(InsertAt(s, Clamp(s, pos), v))
list_append(s, v) == Done(Append(s, v))
list_extend(s, vals) == Done(s \o vals)
\* s.extend(x) with x a container: extend takes iter(x), an iterator that reads
\* the list of x, whose items are t, as it stands at each step.  When that list
\* is s itself and holds an item, every item appended is one more to read: the
\* list grows until memory (MaxLen items) is used up and MemoryError is raised.
Fill(s) == [k \in 1..MaxLen |-> s[((k - 1) % Len(s)) + 1]]
list_extend_iter(s, t, same) ==
    IF same /\ s # <<>> THEN Raise(Fill(s), MemoryError) ELSE Done(s \o t)
list_clear(s) == Done(<<>>)
list_reverse(s) == Done(Reversed(s))
list_remove(s, v) ==
    IF IndexOf(s, v) >= 0 THEN Done(RemoveAt(s, IndexOf(s, v))) ELSE Raise(s, ValueError)
list_pop_partial(s, i) ==
    IF InRange(s, i)
    THEN Ret(RemoveAt(s, NormIdx(s, i)), s[NormIdx(s, i) + 1])
    ELSE Raise(SubSeq(s, 1, Len(s) - 1), IndexError)
list_pop(s, i) ==
    IF InRange(s, i)
    THEN Ret(RemoveAt(s, NormIdx(s, i)), s[NormIdx(s, i) + 1])
    ELSE Raise(s, IndexError)

\* The reading operations of the backing list: the items stay as they are.
CountOf(s, v) == Cardinality({k \in 1..Len(s) : s[k] = v})
list_getitem(s, i) ==
    IF InRange(s, i) THEN Ret(s, s[NormIdx(s, i) + 1]) ELSE Raise(s, IndexError)
\* s[lo:hi], step 1: a new list, bounds clamped
list_getslice(s, lo, hi) == Ret(s, SubSeq(s, Clamp(s, lo) + 1, Clamp(s, hi)))
list_len(s) == Ret(s, Len(s))
\* iter(s) and reversed(s), by the items the iterator yields when it is consumed
list_iter(s) == Ret(s, s)
list_reversed(s) == Ret(s, Reversed(s))
list_contains(s, v) == Ret(s, PyBool(IndexOf(s, v) >= 0))
list_count(s, v) == Ret(s, CountOf(s, v))
list_index(s, v) ==
    IF IndexOf(s, v) >= 0 THEN Ret(s, IndexOf(s, v)) ELSE Raise(s, ValueError)

\* list.sort takes key and reverse by keyword only: called with them in
\* position, as FrozenList.sort calls it, it raises TypeError and sorts nothing.
list_sort(s, key, rev) == Raise(s, TypeError)

\* ------------------------------------------------------------------- hash
\* hash(tuple(items)): the items' hashes combined in order, in HashBits bits.
\* An item that is a container is hashed by its own __hash__ (below); the first
\* error met is the result.  Python's recursion limit ends a cyclic descent.
HashMult == 31
HashSeed == 7
HashMod == 2 ^ 16
RecursionLimit == NObj + 1
Hashed(h) == [err |-> OK, val |-> h]
HashFail(e) == [err |-> e, val |-> None]
Mix(acc, lane) == ((acc * HashMult) + (lane % HashMod)) % HashMod

\* The fold over the item hashes, each [err, val], left to right.
RECURSIVE tuple_hash(_, _)
tuple_hash(hs, acc) ==
    IF hs = <<>> THEN Hashed(acc)
    ELSE IF Head(hs).err # OK THEN Head(hs)
         ELSE tuple_hash(Tail(hs), Mix(acc, Head(hs).val))

\* FrozenList.__hash__ on container c with `fuel` stack frames left.
hash_swapped_guard(c, fuel) ==
    IF ~_frozen[c] THEN Hashed(HashSeed) ELSE HashFail(HashErr)
RECURSIVE hash_top_only(_, _)
hash_top_only(c, fuel) ==
    IF fuel = 0 THEN HashFail(RecursionError)
    ELSE IF _frozen[c] \/ fuel < RecursionLimit
         THEN LET s == lists[_items[c]]
              IN tuple_hash([k \in 1..Len(s) |->
                                IF IsRef(s[k]) THEN hash_top_only(Deref(s[k]), fuel - 1)
                                ELSE Hashed(s[k])],
                            HashSeed)
         ELSE HashFail(HashErr)
RECURSIVE hash_of(_, _)
hash_of(c, fuel) ==
    IF fuel = 0 THEN HashFail(RecursionError)
    ELSE IF _frozen[c]
         THEN LET s == lists[_items[c]]
              IN tuple_hash([k \in 1..Len(s) |->
                                IF IsRef(s[k]) THEN hash_of(Deref(s[k]), fuel - 1)
                                ELSE Hashed(s[k])],
                            HashSeed)
         ELSE HashFail(HashErr)

\* ------------------------------------------------------------ the container
Items(c) == lists[_items[c]]
\* The record of a call: arg is the source of __init__ or the other operand of a
\* comparison; was is the receiver's flag when the call began; after_append marks
\* a pop of the last item that comes immediately after a successful append to the
\* same receiver.
ResA(op, c, a, e, r) ==
    [op |-> op, self |-> c, arg |-> a, err |-> e, ret |-> r,
     was |-> IF c \in Heap THEN _frozen[c] ELSE FALSE,
     after_append |-> /\ op = "pop" /\ e = OK
                      /\ res.op = "append" /\ res.err = OK /\ res.self = c
                      /\ r = Items(c)[Len(Items(c))]]
Res(op, c, e, r) == ResA(op, c, None, e, r)
NoPend == [op |-> "none", self |-> None, rest |-> <<>>]
Idle == pend = NoPend

\* FrozenList._check_frozen: TRUE when it raises.
_check_frozen(c) == _frozen[c]

\* PySequence_List(items) / PyList_New(0): the fresh list object of container c
\* (its own slot of the heap), never the source object.
NewList(c, src) == c
Contents(src) ==
    IF src = None THEN <<>> ELSE IF src \in Obj THEN Items(src) ELSE lists[src]

Mutate_guard_last(c, op, r) ==
    /\ Idle
    /\ IF r.err # OK
       THEN /\ res' = Res(op, c, r.err, None)
            /\ UNCHANGED lists
       ELSE IF _check_frozen(c)
            THEN /\ res' = Res(op, c, FrozenErr, None)
                 /\ UNCHANGED lists
            ELSE /\ Len(r.items) <= MaxLen
                 /\ lists' = [lists EXCEPT ![_items[c]] = r.items]
                 /\ res' = Res(op, c, r.err, r.ret)
    /\ UNCHANGED <<_items, _frozen, pend, froze, aux>>
\* A mutating method: the guard, then the operation r of the backing list.
Mutate(c, op, r) ==
    /\ Idle
    /\ IF _check_frozen(c)
       THEN /\ res' = Res(op, c, FrozenErr, None)
            /\ UNCHANGED lists
       ELSE /\ Len(r.items) <= MaxLen
            /\ lists' = [lists EXCEPT ![_items[c]] = r.items]
            /\ res' = Res(op, c, r.err, r.ret)
    /\ UNCHANGED <<_items, _frozen, pend, froze, aux>>

\* A mutating method whose list operation consumes a lazy iterable: the guard,
\* then the call stays in progress (pend) until the iterable is exhausted.
MutateLazy(c, op, p) ==
    /\ Idle
    /\ IF _check_frozen(c)
       THEN /\ res' = Res(op, c, FrozenErr, None)
            /\ UNCHANGED <<lists, pend>>
       ELSE /\ pend' = p
            /\ UNCHANGED lists
            /\ res' = Res(op, c, "running", None)
    /\ UNCHANGED <<_items, _frozen, froze, aux>>

__init__(c, src) ==
    /\ Idle
    /\ _frozen' = [_frozen EXCEPT ![c] = FALSE]
    /\ lists' = [lists EXCEPT ![NewList(c, src)] = Contents(src)]
    /\ _items' = [_items EXCEPT ![c] = NewList(c, src)]
    /\ res' = ResA("__init__", c, src, OK, None)
    /\ UNCHANGED <<pend, froze, aux>>

freeze_toggles(c) ==
    /\ _frozen' = [_frozen EXCEPT ![c] = ~_frozen[c]]
    /\ froze' = froze \cup {c}
    /\ res' = Res("freeze", c, OK, None)
    /\ UNCHANGED <<lists, _items, pend, aux>>
\* freeze() may run at any time: also from a callback of, or a thread beside, a
\* mutating call in progress.
freeze(c) ==
    /\ _frozen' = [_frozen EXCEPT ![c] = TRUE]
    /\ froze' = froze \cup {c}
    /\ res' = Res("freeze", c, OK, None)
    /\ UNCHANGED <<lists, _items, pend, aux>>

__setitem__(c, i, v) == Mutate(c, "__setitem__", list_setitem(Items(c), i, v))
__setslice__(c, lo, hi, vals) ==
    Mutate(c, "__setitem__[:]", list_setslice(Items(c), lo, hi, vals))
__delitem__(c, i) == Mutate(c, "__delitem__", list_delitem(Items(c), i))
__delslice__(c, lo, hi) ==
    Mutate(c, "__delitem__[:]", list_setslice(Items(c), lo, hi, <<>>))
insert(c, pos, item) == Mutate(c, "insert", list_insert(Items(c), pos, item))
remove(c, item) == Mutate(c, "remove", list_remove(Items(c), item))
clear(c) == Mutate(c, "clear", list_clear(Items(c)))
reverse(c) == Mutate(c, "reverse", list_reverse(Items(c)))
pop_first(c, index) == Mutate(c, "pop", list_pop(Items(c), 0))
pop(c, index) == Mutate(c, "pop", list_pop(Items(c), index))
append(c, item) == Mutate(c, "append", list_append(Items(c), item))

\* extend / += with a materialised argument run in one go; with a lazy iterable
\* the items are appended one by one as the iterable yields them.
Extending(c, op, items, lazy) ==
    IF lazy
    THEN /\ Len(Items(c)) + Len(items) <= MaxLen
         /\ MutateLazy(c, op, [NoPend EXCEPT !.op = op, !.self = c, !.rest = items])
    ELSE Mutate(c, op, list_extend(Items(c), items))
extend(c, items, lazy) == Extending(c, "extend", items, lazy)
__iadd__(c, items, lazy) == Extending(c, "__iadd__", items, lazy)
\* extend / += with a container as the argument
ExtendingWith(c, op, src) ==
    Mutate(c, op, list_extend_iter(Items(c), Items(src), _items[src] = _items[c]))
extend_container(c, src) == ExtendingWith(c, "extend", src)
iadd_container(c, src) == ExtendingWith(c, "__iadd__", src)
list_extend_next ==
    /\ pend.op \in {"extend", "__iadd__"}
    /\ IF pend.rest = <<>>
       THEN /\ pend' = NoPend
            /\ res' = Res(pend.op, pend.self, OK, None)
            /\ UNCHANGED lists
       ELSE /\ lists' = [lists EXCEPT ![_items[pend.self]] = Append(@, Head(pend.rest))]
            /\ pend' = [pend EXCEPT !.rest = Tail(@)]
            /\ res' = Res(pend.op, pend.self, "running", None)
    /\ UNCHANGED <<_items, _frozen, froze, aux>>

sort(c, key, rev) == Mutate(c, "sort", list_sort(Items(c), key, rev))

__hash__(c) ==
    /\ Idle
    /\ LET h == hash_of(c, RecursionLimit)
       IN res' = Res("__hash__", c, h.err, h.val)
    /\ UNCHANGED <<lists, _items, _frozen, pend, froze, aux>>

\* ----------------------------------------------------------------- reading
Read_guarded(c, op, r) ==
    /\ res' = IF _check_frozen(c) THEN Res(op, c, FrozenErr, None)
                                  ELSE Res(op, c, r.err, r.ret)
    /\ UNCHANGED <<lists, _items, _frozen, pend, froze, aux>>
\* A reading method: no guard; the operation r of the backing list gives the
\* outcome.
Read(c, op, r) ==
    /\ res' = Res(op, c, r.err, r.ret)
    /\ UNCHANGED <<lists, _items, _frozen, pend, froze, aux>>

frozen(c) == Read(c, "frozen", Ret(Items(c), PyBool(_frozen[c])))
__getitem__(c, i) == Read(c, "__getitem__", list_getitem(Items(c), i))
__getslice__(c, lo, hi) == Read(c, "__getitem__[:]", list_getslice(Items(c), lo, hi))
__len__(c) == Read(c, "__len__", list_len(Items(c)))
__iter__(c) == Read(c, "__iter__", list_iter(Items(c)))
__reversed__(c) == Read(c, "__reversed__", list_reversed(Items(c)))
__contains__(c, item) == Read(c, "__contains__", list_contains(Items(c), item))
index(c, item) == Read(c, "index", list_index(Items(c), item))
count(c, item) == Read(c, "count", list_count(Items(c), item))
\* '<FrozenList(frozen={}, {!r})>': the flag and the items, formatted
__repr__(c) ==
    Read(c, "__repr__",
         Ret(Items(c), <<"<FrozenList(frozen=", _frozen[c], ", ", Items(c), ")>">>))

\* -------------------------------------------------------------- comparison
\* The comparison of two Python ints under the operator number of __richcmp__.
int_richcmp(x, y, op) ==
    CASE op = 0 -> x < y
      [] op = 1 -> x <= y
      [] op = 2 -> x = y
      [] op = 3 -> x # y
      [] op = 4 -> x > y
      [] op = 5 -> x >= y
\* list <op> list: the first pair of items that differ decides; without one the
\* lengths decide.
FirstDiff(a, b) ==
    LET n == IF Len(a) < Len(b) THEN Len(a) ELSE Len(b)
        D == {k \in 1..n : a[k] # b[k]}
    IN IF D = {} THEN 0 ELSE CHOOSE k \in D : \A j \in D : k <= j
list_richcmp(a, b, op) ==
    LET k == FirstDiff(a, b)
    IN IF k = 0 THEN int_richcmp(Len(a), Len(b), op)
       ELSE int_richcmp(a[k], b[k], op)
\* The operator as seen from the right operand.
Swapped(op) ==
    CASE op = 0 -> 4
      [] op = 1 -> 5
      [] op = 4 -> 0
      [] op = 5 -> 1
      [] OTHER -> op
CmpName(op) == <<"<", "<=", "==", "!=", ">", ">=">>[op + 1]
CmpOps == {CmpName(op) : op \in 0..5}

\* FrozenList.__richcmp__: list(self) <op> other.  With a list it is the list
\* comparison.  A list and a tuple are never equal and do not order.  With a
\* container the list returns NotImplemented and Python asks the container with
\* the operator swapped: list(other) <swapped op> list(self).
richcmp(c, other, op) ==
    IF other \in Heap
    THEN [err |-> OK, ret |-> PyBool(list_richcmp(Items(other), Items(c), Swapped(op)))]
    ELSE IF ukind = "list"
         THEN [err |-> OK, ret |-> PyBool(list_richcmp(Items(c), lists[other], op))]
         ELSE IF op = 2 THEN [err |-> OK, ret |-> PyBool(FALSE)]
              ELSE IF op = 3 THEN [err |-> OK, ret |-> PyBool(TRUE)]
                   ELSE [err |-> TypeError, ret |-> None]
__richcmp__(c, other, op) ==
    /\ Idle
    /\ res' = ResA(CmpName(op), c, other, richcmp(c, other, op).err,
                   richcmp(c, other, op).ret)
    /\ UNCHANGED <<lists, _items, _frozen, pend, froze, aux>>

\* The caller changes its own list object (a tuple cannot change).
user_append(v) ==
    /\ ukind = "list"
    /\ Len(lists[UserObj]) < MaxLen
    /\ lists' = [lists EXCEPT ![UserObj] = Append(@, v)]
    /\ res' = ResA("user.append", None, UserObj, OK, None)
    /\ UNCHANGED <<_items, _frozen, pend, froze, aux>>
user_pop ==
    /\ ukind = "list"
    /\ lists[UserObj] # <<>>
    /\ lists' = [lists EXCEPT ![UserObj] = SubSeq(@, 1, Len(@) - 1)]
    /\ res' = ResA("user.pop", None, UserObj, OK, lists[UserObj][Len(lists[UserObj])])
    /\ UNCHANGED <<_items, _frozen, pend, froze, aux>>

\* No deep copy has been started.
NoTop == [src |-> None, dst |-> None]
NoCopy ==
    /\ memo = [d \in Obj |-> None]
    /\ stack = <<>>
    /\ top = NoTop

\* ------------------------------------------------------------ specification
\* Every container has been constructed empty: FrozenList().
Init ==
    /\ lists = [l \in LId |-> <<>>]
    /\ _items = [c \in Heap |-> c]
    /\ _frozen = [c \in Heap |-> FALSE]
    /\ res = [op |-> "__init__", self |-> NObj, arg |-> None, err |-> OK, ret |-> None,
              was |-> FALSE, after_append |-> FALSE]
    /\ pend = NoPend
    /\ froze = {}
    /\ ukind = "list"
    /\ NoCopy

Iterables == {<<>>, <<1>>, <<2, 1>>}

Next ==
    \E c \in Obj :
        \/ freeze(c)
        \/ \E src \in {None} \cup Obj : __init__(c, src)
        \/ \E i \in Idx, v \in IntVal : __setitem__(c, i, v)
        \/ \E lo \in 0..1, hi \in {0, MaxLen}, vals \in {<<>>, <<2>>} :
              __setslice__(c, lo, hi, vals)
        \/ \E i \in Idx : __delitem__(c, i)
        \/ \E lo \in 0..1, hi \in {1, MaxLen} : __delslice__(c, lo, hi)
        \/ \E pos \in Idx, v \in IntVal : insert(c, pos, v)
        \/ \E items \in Iterables, lazy \in BOOLEAN : __iadd__(c, items, lazy)
        \/ \E key \in {"none", "neg"}, rev \in BOOLEAN : sort(c, key, rev)
        \/ \E v \in IntVal : remove(c, v)
        \/ clear(c)
        \/ \E items \in Iterables, lazy \in BOOLEAN : extend(c, items, lazy)
        \/ \E src \in Obj : extend_container(c, src)
        \/ \E src \in Obj : iadd_container(c, src)
        \/ reverse(c)
        \/ \E i \in Idx : pop(c, i)
        \/ \E v \in IntVal : append(c, v)
        \/ __hash__(c)
        \/ list_extend_next

Spec == Init /\ [][Next]_vars

\* ------------------------------------------------- guard and freeze (Spec)
MutatorOps ==
    {"__setitem__", "__setitem__[:]", "__delitem__", "__delitem__[:]", "insert",
     "append", "extend", "__iadd__", "clear", "reverse", "remove", "pop", "sort"}

\* C1: on a container on which freeze() has returned, every mutating call fails
\* with the frozen-state error and leaves the items and the flag as they were.
\* (A call is a step taken while no other call is in progress.)
C1_MutationAfterFreezeFails ==
    [][(Idle /\ res'.op \in MutatorOps /\ res'.self \in froze)
          => (res'.err = FrozenErr /\ lists' = lists /\ _frozen' = _frozen)]_vars

\* What the guard does give: a mutating call that finds the flag set fails with
\* the frozen-state error and changes nothing.
GuardRejectsWhileFlagSet ==
    [][(Idle /\ res'.op \in MutatorOps /\ _frozen[res'.self])
          => (res'.err = FrozenErr /\ lists' = lists /\ _frozen' = _frozen)]_vars

\* C2: the frozen flag is false after construction and never goes back from true
\* to false, whatever operation runs.
C2_FrozenMonotonic ==
    [][\A c \in Obj : _frozen[c] => _frozen'[c]]_vars

\* C3: while the frozen flag of a container stays true its item sequence does not
\* change, in every interleaving of freeze() with calls in progress.
C3_FrozenItemsFixed ==
    [][\A c \in Obj : (_frozen[c] /\ _frozen'[c]) => lists'[_items'[c]] = lists[_items[c]]]_vars

\* C6: freeze() always succeeds, sets the flag, changes no item, and called on a
\* frozen container changes nothing at all.
C6_FreezeIdempotent ==
    [][/\ \A c \in Obj : ENABLED freeze(c)
       /\ res'.op = "freeze" =>
             /\ res'.err = OK
             /\ _frozen'[res'.self]
             /\ \A d \in Obj \ {res'.self} : _frozen'[d] = _frozen[d]
             /\ UNCHANGED <<lists, _items, pend>>
             /\ _frozen[res'.self] => UNCHANGED <<_frozen, froze>>]_vars
\* freeze() has been called on a container that was already frozen and holds items
C6_Witness ==
    /\ res.op = "freeze"
    /\ res.was
    /\ _frozen[res.self]
    /\ Len(Items(res.self)) > 0

\* ------------------------------------------- the list operations (Spec)
Last(s) == s[Len(s)]
Front(s) == SubSeq(s, 1, Len(s) - 1)

\* C11: on an unfrozen container append(v) succeeds and puts v after the items
\* there were, and a pop() with the default index that comes immediately after
\* it succeeds, returns v and leaves exactly the items there were before the
\* append.
C11_AppendThenPopRestores ==
    [][\A c \in Obj :
          /\ \A v \in IntVal :
                (~_frozen[c] /\ append(c, v)) =>
                   /\ res'.err = OK
                   /\ (lists[_items[c]])' = Append(Items(c), v)
          /\ (res.op = "append" /\ res.err = OK /\ res.self = c /\ ~res.was
                 /\ pop(c, 0 - 1)) =>
                   /\ res'.after_append
                   /\ res'.err = OK
                   /\ res'.ret = Last(Items(c))
                   /\ (lists[_items[c]])' = Front(Items(c))
                   /\ Append((lists[_items[c]])', res'.ret) = Items(c)]_vars
\* 2 has been appended to an unfrozen container holding 1 and popped at once:
\* the pop returned 2 and the container holds 1 again
C11_Witness ==
    /\ res.op = "pop"
    /\ res.after_append
    /\ res.err = OK
    /\ res.ret = 2
    /\ ~_frozen[res.self]
    /\ Items(res.self) = <<1>>

\* The step gives container c the items, the return value and the outcome that
\* the operation r of a plain list gives.
Plain(c, r) ==
    /\ (lists[_items[c]])' = r.items
    /\ res'.err = r.err
    /\ res'.ret = r.ret
\* A lazy extend / += in progress takes the next item of its iterable as the
\* plain list does.
PlainNext(c) ==
    IF pend.rest = <<>>
    THEN Plain(c, Done(Items(c))) /\ pend' = NoPend
    ELSE /\ (lists[_items[c]])' = Append(Items(c), Head(pend.rest))
         /\ pend'.rest = Tail(pend.rest)
\* Every step of a mutating operation other than sort on the unfrozen container
\* c is the step of a plain list with the same items, a container given as the
\* argument of extend / += being one of Args and standing for its plain list.
RefinesPlain(c, Args) ==
    /\ (Idle /\ ~_frozen[c] /\ res'.self = c /\ res'.op \in MutatorOps \ {"sort"}) =>
          /\ \A i \in Idx, v \in IntVal :
                __setitem__(c, i, v) => Plain(c, list_setitem(Items(c), i, v))
          /\ \A lo \in 0..1, hi \in {0, MaxLen}, vals \in {<<>>, <<2>>} :
                __setslice__(c, lo, hi, vals) =>
                   Plain(c, list_setslice(Items(c), lo, hi, vals))
          /\ \A i \in Idx : __delitem__(c, i) => Plain(c, list_delitem(Items(c), i))
          /\ \A lo \in 0..1, hi \in {1, MaxLen} :
                __delslice__(c, lo, hi) => Plain(c, list_setslice(Items(c), lo, hi, <<>>))
          /\ \A pos \in Idx, v \in IntVal :
                insert(c, pos, v) => Plain(c, list_insert(Items(c), pos, v))
          /\ \A v \in IntVal : append(c, v) => Plain(c, list_append(Items(c), v))
          /\ \A v \in IntVal : remove(c, v) => Plain(c, list_remove(Items(c), v))
          /\ \A i \in Idx : pop(c, i) => Plain(c, list_pop(Items(c), i))
          /\ clear(c) => Plain(c, list_clear(Items(c)))
          /\ reverse(c) => Plain(c, list_reverse(Items(c)))
          /\ \A items \in Iterables :
                /\ extend(c, items, FALSE) => Plain(c, list_extend(Items(c), items))
                /\ __iadd__(c, items, FALSE) => Plain(c, list_extend(Items(c), items))
                /\ (extend(c, items, TRUE) \/ __iadd__(c, items, TRUE)) =>
                      (lists[_items[c]])' = Items(c)
          /\ \A src \in Args :
                /\ extend_container(c, src) => Plain(c, list_extend(Items(c), Items(src)))
                /\ iadd_container(c, src) => Plain(c, list_extend(Items(c), Items(src)))
    /\ (pend.self = c /\ ~_frozen[c] /\ list_extend_next) => PlainNext(c)

\* C14: every step of a mutating operation (set and delete of an item or slice,
\* insert, append, extend, +=, clear, reverse, remove, pop) on an unfrozen
\* container gives the items, the return value and the outcome that the same
\* operation gives on a plain list with the same items, so the two agree after
\* every step of every sequence of operations.
C14_RefinesPlainList ==
    [][\A c \in Obj : RefinesPlain(c, Obj)]_vars

\* What holds: the same, the container itself as the argument of extend and +=
\* left out.
RefinesPlainListOnOtherArguments ==
    [][\A c \in Obj : RefinesPlain(c, Obj \ {c})]_vars

\* The step fails with the frozen-state error and changes nothing.
FrozenOutcome ==
    /\ res'.err = FrozenErr
    /\ UNCHANGED <<lists, _items, _frozen>>

\* C15: on a container whose flag is set the guard comes before everything else:
\* pop on an empty container, pop at an index out of range, remove of an absent
\* item, and set or delete at an index out of range fail with the frozen-state
\* error, not with out-of-range or item-not-found; so does every other mutating
\* call.
C15_FrozenErrorFirst ==
    [][\A c \in Obj :
          (Idle /\ _frozen[c] /\ res'.self = c /\ res'.op \in MutatorOps) =>
             /\ FrozenOutcome
             /\ \A i \in Idx :
                   (~InRange(Items(c), i)
                       /\ (pop(c, i) \/ __delitem__(c, i)
                              \/ \E v \in IntVal : __setitem__(c, i, v)))
                      => FrozenOutcome
             /\ \A v \in IntVal :
                   (Absent(Items(c), v) /\ remove(c, v)) => FrozenOutcome]_vars
\* pop has failed with the frozen-state error on a frozen container without items
C15_Witness ==
    /\ res.op = "pop"
    /\ res.err = FrozenErr
    /\ _frozen[res.self]
    /\ Items(res.self) = <<>>

\* The key of an item under a key-extraction function: none, or negation.
KeyOf(key, v) == IF key = "neg" THEN 0 - v ELSE v
\* a goes strictly before b in the order asked for
Before(a, b, key, rev) ==
    IF rev THEN KeyOf(key, a) > KeyOf(key, b) ELSE KeyOf(key, a) < KeyOf(key, b)
\* v put into the sorted sequence t behind every item it does not go before
RECURSIVE SortInsert(_, _, _, _)
SortInsert(t, v, key, rev) ==
    IF t = <<>> THEN <<v>>
    ELSE IF Before(v, Head(t), key, rev) THEN <<v>> \o t
         ELSE <<Head(t)>> \o SortInsert(Tail(t), v, key, rev)
\* The stable sorted permutation of s: items with equal keys keep their order.
RECURSIVE StableSorted(_, _, _)
StableSorted(s, key, rev) ==
    IF s = <<>> THEN <<>>
    ELSE SortInsert(StableSorted(Front(s), key, rev), Last(s), key, rev)

\* C13: on an unfrozen container sort(), with or without a key-extraction
\* function and the reverse flag, succeeds and leaves the stable sorted
\* permutation of the items there were.
C13_SortSorts ==
    [][\A c \in Obj, key \in {"none", "neg"}, rev \in BOOLEAN :
          (~_frozen[c] /\ res'.op = "sort" /\ sort(c, key, rev)) =>
             /\ res'.err = OK
             /\ (lists[_items[c]])' = StableSorted(Items(c), key, rev)]_vars

\* What sort does on an unfrozen container: it fails with TypeError and leaves
\* the items as they were.
SortAlwaysFails ==
    [][(res'.op = "sort" /\ ~_frozen[res'.self]) =>
          (res'.err = TypeError /\ UNCHANGED <<lists, _items, _frozen>>)]_vars

\* ---------------------------------------------------------- hash (SpecHash)
\* Containers that hold integers, each other and themselves: built by append,
\* emptied by __init__, frozen and hashed.
NextHash ==
    \E c \in Obj :
        \/ freeze(c)
        \/ __init__(c, None)
        \/ \E v \in Val : append(c, v)
        \/ __hash__(c)

SpecHash == Init /\ [][NextHash]_vars

\* The containers held as items by c, and those reachable through items.
Held(c) == {d \in Obj : \E k \in 1..Len(Items(c)) : Items(c)[k] = Ref(d)}
RECURSIVE ReachFrom(_, _)
ReachFrom(S, n) ==
    IF n = 0 THEN S ELSE ReachFrom(S \cup UNION {Held(d) : d \in S}, n - 1)
Reach(c) == ReachFrom(Held(c), NObj)
\* Every container met when hashing c is frozen and none of them holds itself,
\* directly or through others.
Hashable(c) == \A d \in {c} \cup Reach(c) : _frozen[d] /\ d \notin Reach(d)

\* hash(tuple(s)) for an item sequence s, from the hashes of its items
HashOfItem(v) == IF IsRef(v) THEN hash_of(Deref(v), RecursionLimit) ELSE Hashed(v)
HashOfTuple(s) == tuple_hash([k \in 1..Len(s) |-> HashOfItem(s[k])], HashSeed)

\* C4: hash on an unfrozen container fails with the illegal-hash-state error; on a
\* frozen one it is hash(tuple(items)); it changes nothing; two frozen containers
\* with equal item sequences hash alike.
C4_HashIsTupleHash ==
    [][res'.op = "__hash__" =>
          /\ UNCHANGED <<lists, _items, _frozen, pend>>
          /\ IF _frozen[res'.self]
             THEN /\ res'.err = HashOfTuple(Items(res'.self)).err
                  /\ res'.ret = HashOfTuple(Items(res'.self)).val
                  /\ \A d \in Obj :
                        (_frozen[d] /\ Items(d) = Items(res'.self)) =>
                           /\ hash_of(d, RecursionLimit).err = res'.err
                           /\ hash_of(d, RecursionLimit).val = res'.ret
             ELSE res'.err = HashErr]_vars
\* a frozen container with items has been hashed while another frozen container
\* holds the same items
C4_Witness ==
    /\ res.op = "__hash__"
    /\ res.err = OK
    /\ _frozen[res.self]
    /\ Len(Items(res.self)) = MaxLen
    /\ \E d \in Obj \ {res.self} : _frozen[d] /\ Items(d) = Items(res.self)

InitNew ==
    /\ \E s \in SeqsUpTo(IntVal, MaxLen) :
          lists = [l \in LId |-> IF l = UserObj THEN s ELSE <<>>]
    /\ _items = [c \in Heap |-> c]
    /\ _frozen = [c \in Heap |-> FALSE]
    /\ res = [op |-> "__init__", self |-> NObj, arg |-> None, err |-> OK, ret |-> None,
              was |-> FALSE, after_append |-> FALSE]
    /\ pend = NoPend
    /\ froze = {}
    /\ ukind \in {"list", "tuple"}
    /\ NoCopy

NextNew ==
    \/ \E c \in Obj :
          \/ \E src \in {None, UserObj} : __init__(c, src)
          \/ \E v \in IntVal : append(c, v)
          \/ pop(c, 0 - 1)
          \/ freeze(c)
    \/ \E v \in IntVal : user_append(v)
    \/ user_pop

SpecNew == InitNew /\ [][NextNew]_vars

UserOps == {"user.append", "user.pop"}

\* C7: a container built from S holds the items of S in order and compares equal
\* to S; built from nothing it is empty; afterwards changing S does not change a
\* container and changing a container does not change S.
C7_ConstructionCopies ==
    [][/\ \A c \in Obj, src \in {None, UserObj} :
             (res'.op = "__init__" /\ res'.self = c /\ res'.arg = src) =>
                /\ (lists[_items[c]])' = Contents(src)
                /\ src # None => richcmp(c, src, 2)' = [err |-> OK, ret |-> PyBool(TRUE)]
       /\ res'.op \in UserOps =>
             \A c \in Obj : (lists[_items[c]])' = lists[_items[c]]
       /\ res'.op \in MutatorOps => lists'[UserObj] = lists[UserObj]]_vars

\* What holds of construction: the items are those of S, and S and the containers
\* do not share the list object.
EagerCopyOfItems ==
    [][/\ \A c \in Obj, src \in {None, UserObj} :
             (res'.op = "__init__" /\ res'.self = c /\ res'.arg = src) =>
                (lists[_items[c]])' = Contents(src)
       /\ res'.op \in UserOps =>
             \A c \in Obj : (lists[_items[c]])' = lists[_items[c]]
       /\ res'.op \in MutatorOps => lists'[UserObj] = lists[UserObj]]_vars

\* ---------------------------------------------------- comparison (SpecCmp)
\* Two containers and the caller's list or tuple, with every content and every
\* flag; the six operators are applied to a container and each other object.
InitCmp ==
    /\ \E f \in [Obj \cup {UserObj} -> SeqsUpTo(IntVal, MaxLen)] :
          lists = [l \in LId |-> IF l \in CopyObj THEN <<>> ELSE f[l]]
    /\ _items = [c \in Heap |-> c]
    /\ \E f \in [Obj -> BOOLEAN] :
          _frozen = [c \in Heap |-> IF c \in CopyObj THEN FALSE ELSE f[c]]
    /\ res = [op |-> "__init__", self |-> NObj, arg |-> None, err |-> OK, ret |-> None,
              was |-> FALSE, after_append |-> FALSE]
    /\ pend = NoPend
    /\ froze = {c \in Obj : _frozen[c]}
    /\ ukind \in {"list", "tuple"}
    /\ NoCopy

NextCmp ==
    \E c \in Obj, other \in Obj \cup {UserObj}, op \in 0..5 : __richcmp__(c, other, op)

SpecCmp == InitCmp /\ [][NextCmp]_vars

\* Lexicographic order of two item sequences, item by item.
RECURSIVE LexLess(_, _)
LexLess(a, b) ==
    IF b = <<>> THEN FALSE
    ELSE IF a = <<>> THEN TRUE
    ELSE IF Head(a) # Head(b) THEN Head(a) < Head(b)
    ELSE LexLess(Tail(a), Tail(b))
Lexicographic(a, name, b) ==
    CASE name = "<" -> LexLess(a, b)
      [] name = "<=" -> LexLess(a, b) \/ a = b
      [] name = "==" -> a = b
      [] name = "!=" -> a # b
      [] name = ">" -> LexLess(b, a)
      [] name = ">=" -> LexLess(b, a) \/ a = b

\* C8: each comparison of a container with a list, a tuple or a container is
\* defined and is the lexicographic comparison of the two item sequences,
\* whatever the frozen flags are.
C8_ComparisonIsLexicographic ==
    [][res'.op \in CmpOps =>
          /\ res'.err = OK
          /\ res'.ret = PyBool(Lexicographic(Items(res'.self), res'.op,
                                             Contents(res'.arg)))]_vars

\* What holds: against a list or a container the comparison is lexicographic
\* whatever the flags; against a tuple == is false, != true, and ordering fails.
ComparisonWithListsIsLexicographic ==
    [][(res'.op \in CmpOps /\ (res'.arg \in Obj \/ ukind = "list")) =>
          /\ res'.err = OK
          /\ res'.ret = PyBool(Lexicographic(Items(res'.self), res'.op,
                                             Contents(res'.arg)))]_vars

\* ------------------------------------------------------- reading (SpecRead)
\* Container x with every content, container y empty or with one item, every
\* flag, and the caller's empty list or tuple; the reading methods, the
\* comparisons and hash are called, and items are looked up and taken out with
\* pop and remove.
InitRead ==
    /\ \E s \in SeqsUpTo(IntVal, MaxLen), s2 \in {<<>>, <<1>>} :
          lists = [l \in LId |-> IF l = 1 THEN s ELSE IF l = 2 THEN s2 ELSE <<>>]
    /\ _items = [c \in Heap |-> c]
    /\ \E f \in [Obj -> BOOLEAN] :
          _frozen = [c \in Heap |-> IF c \in CopyObj THEN FALSE ELSE f[c]]
    /\ res = [op |-> "__init__", self |-> NObj, arg |-> None, err |-> OK, ret |-> None,
              was |-> FALSE, after_append |-> FALSE]
    /\ pend = NoPend
    /\ froze = {c \in Obj : _frozen[c]}
    /\ ukind \in {"list", "tuple"}
    /\ NoCopy

NextRead ==
    \E c \in Obj :
        \/ frozen(c)
        \/ \E i \in Idx : __getitem__(c, i)
        \/ \E lo \in 0..1, hi \in {1, MaxLen} : __getslice__(c, lo, hi)
        \/ __len__(c)
        \/ __iter__(c)
        \/ __reversed__(c)
        \/ \E other \in Obj \cup {UserObj}, op \in 0..5 : __richcmp__(c, other, op)
        \/ \E v \in IntVal : __contains__(c, v)
        \/ \E v \in IntVal : index(c, v)
        \/ \E v \in IntVal : count(c, v)
        \/ __repr__(c)
        \/ __hash__(c)
        \/ \E v \in IntVal : remove(c, v)
        \/ \E i \in Idx : pop(c, i)

SpecRead == InitRead /\ [][NextRead]_vars

ContainerUnchanged == UNCHANGED <<lists, _items, _frozen>>
DocumentedErrors == {FrozenErr, HashErr, IndexError, ValueError}

\* C12: a call that fails with a documented error leaves the items and the flag
\* as they were; on an unfrozen container pop at an index out of range (any
\* index when the container is empty) fails with out-of-range, remove and index
\* of an absent item fail with item-not-found, each leaving items, length and
\* flag unchanged.
C12_FailureLeavesStateUnchanged ==
    [][/\ res'.err \in DocumentedErrors => ContainerUnchanged
       /\ \A c \in Obj :
             ~_frozen[c] =>
                /\ \A i \in Idx :
                      (res'.op = "pop" /\ pop(c, i) /\ ~InRange(Items(c), i)) =>
                         (res'.err = IndexError /\ ContainerUnchanged)
                /\ \A v \in IntVal :
                      (res'.op = "remove" /\ remove(c, v) /\ Absent(Items(c), v)) =>
                         (res'.err = ValueError /\ ContainerUnchanged)
                /\ \A v \in IntVal :
                      (res'.op = "index" /\ index(c, v) /\ Absent(Items(c), v)) =>
                         (res'.err = ValueError /\ ContainerUnchanged)]_vars
\* pop at an index out of range has failed on an unfrozen container that holds
\* items
C12_Witness ==
    /\ res.op = "pop"
    /\ res.err = IndexError
    /\ ~_frozen[res.self]
    /\ Len(Items(res.self)) = 1

ReadOps ==
    {"frozen", "__getitem__", "__getitem__[:]", "__len__", "__iter__", "__reversed__",
     "__contains__", "index", "count", "__repr__", "__hash__"} \cup CmpOps
\* The step's outcome is that of the reading operation r of the backing list.
Reads(r) == res'.err = r.err /\ res'.ret = r.ret

\* C17: indexed access, length, iteration in both directions, membership, count,
\* index lookup, comparison, string representation, the frozen query and hash
\* leave the items and the flag of every container as they were, whether the
\* flag is set or not and whether they succeed or fail; and all but hash give
\* the outcome the backing list gives for the items, never the frozen-state or
\* the illegal-hash-state error.
C17_ReadsArePure ==
    [][res'.op \in ReadOps =>
          /\ UNCHANGED <<lists, _items, _frozen, pend>>
          /\ res'.op # "__hash__" => res'.err \notin {FrozenErr, HashErr}
          /\ \A c \in Obj :
                /\ (res'.op = "frozen" /\ frozen(c)) =>
                      (res'.err = OK /\ res'.ret = PyBool(_frozen[c]))
                /\ \A i \in Idx :
                      (res'.op = "__getitem__" /\ __getitem__(c, i)) =>
                         Reads(list_getitem(Items(c), i))
                /\ (res'.op = "__len__" /\ __len__(c)) => Reads(list_len(Items(c)))
                /\ (res'.op = "__iter__" /\ __iter__(c)) => Reads(list_iter(Items(c)))
                /\ (res'.op = "__reversed__" /\ __reversed__(c)) =>
                      Reads(list_reversed(Items(c)))
                /\ \A v \in IntVal :
                      /\ (res'.op = "__contains__" /\ __contains__(c, v)) =>
                            Reads(list_contains(Items(c), v))
                      /\ (res'.op = "index" /\ index(c, v)) =>
                            Reads(list_index(Items(c), v))
                      /\ (res'.op = "count" /\ count(c, v)) =>
                            Reads(list_count(Items(c), v))
                /\ (res'.op = "__repr__" /\ __repr__(c)) => res'.err = OK]_vars
\* the last item of a frozen, full container has been read by index
C17_Witness ==
    /\ res.op = "__getitem__"
    /\ res.err = OK
    /\ _frozen[res.self]
    /\ Len(Items(res.self)) = MaxLen
    /\ res.ret = Items(res.self)[MaxLen]

\* ------------------------------------------------------ deep copy (SpecCopy)
Range(f) == {f[x] : x \in DOMAIN f}
Allocated == (Range(memo) \ {None}) \cup {stack[k].new : k \in 1..Len(stack)}
\* self.__class__([]): the next object of the heap that is not yet in use
FreshObj == CHOOSE n \in CopyObj \ Allocated : \A m \in CopyObj \ Allocated : n <= m
\* memo[obj_id] = new_list, before any item is copied
memo_register_late(m, c, n) == m
memo_register(m, c, n) == [m EXCEPT ![c] = n]
\* PySequence_Contains(memo, obj_id) and memo[obj_id]
memo_contains_never(m, c) == FALSE
memo_contains(m, c) == m[c] # None
\* if self._frozen.load(): new_list.freeze()
copy_never_frozen(c) == FALSE
copy_frozen(c) == _frozen[c]

\* __deepcopy__ begins on container c, not in the memo: the empty copy is
\* created (FrozenList([])) and registered, and the call is on the stack.
Enter(c, frames) ==
    /\ CopyObj \ Allocated # {}
    /\ LET n == FreshObj
       IN /\ lists' = [lists EXCEPT ![NewList(n, None)] = <<>>]
          /\ _items' = [_items EXCEPT ![n] = NewList(n, None)]
          /\ _frozen' = [_frozen EXCEPT ![n] = FALSE]
          /\ memo' = memo_register(memo, c, n)
          /\ stack' = Append(frames, [self |-> c, new |-> n, acc |-> <<>>])
          /\ res' = ResA("__deepcopy__", c, None, "running", None)

\* copy.deepcopy(x): the top-level call, with an empty memo
deepcopy(c) ==
    /\ Idle
    /\ stack = <<>>
    /\ top = NoTop
    /\ Enter(c, stack)
    /\ UNCHANGED <<pend, froze, ukind, top>>

\* One item of the list comprehension: an int is its own copy, a container in
\* the memo gives its registered copy, any other container is entered.
deepcopy_item ==
    /\ stack # <<>>
    /\ LET f == stack[Len(stack)]
           k == Len(f.acc) + 1
           grown(v) == [stack EXCEPT ![Len(stack)].acc = Append(@, v)]
       IN /\ k <= Len(Items(f.self))
          /\ LET item == Items(f.self)[k]
             IN IF ~IsRef(item)
                THEN /\ stack' = grown(item)
                     /\ res' = ResA("__deepcopy__", f.self, None, "running", None)
                     /\ UNCHANGED <<lists, _items, _frozen, memo>>
                ELSE IF memo_contains(memo, Deref(item))
                     THEN /\ stack' = grown(Ref(memo[Deref(item)]))
                          /\ res' = ResA("__deepcopy__", f.self, None, "running", None)
                          /\ UNCHANGED <<lists, _items, _frozen, memo>>
                     ELSE Enter(Deref(item), stack)
    /\ UNCHANGED <<pend, froze, ukind, top>>

\* The comprehension is complete: new_list._items[:] = [...], the flag is
\* preserved, and the copy is returned to the caller, which records it in the
\* memo (copy.deepcopy) and, inside a comprehension, takes it as the item's copy.
deepcopy_return ==
    /\ stack # <<>>
    /\ LET f == stack[Len(stack)]
           rest == SubSeq(stack, 1, Len(stack) - 1)
       IN /\ Len(f.acc) = Len(Items(f.self))
          /\ lists' = [lists EXCEPT ![_items[f.new]] = f.acc]
          /\ _frozen' = [_frozen EXCEPT ![f.new] = copy_frozen(f.self)]
          /\ memo' = [memo EXCEPT ![f.self] = f.new]
          /\ IF rest = <<>>
             THEN /\ stack' = rest
                  /\ top' = [src |-> f.self, dst |-> f.new]
                  /\ res' = ResA("__deepcopy__", f.self, None, OK, Ref(f.new))
             ELSE /\ stack' = [rest EXCEPT ![Len(rest)].acc = Append(@, Ref(f.new))]
                  /\ top' = top
                  /\ res' = ResA("__deepcopy__", f.self, None, "running", None)
    /\ UNCHANGED <<_items, pend, froze, ukind>>

\* Containers x and y with every content over an integer and references to x
\* and y, and every flag.  One of them is deep-copied; then the original and the
\* copy are frozen in any order and one of them is changed.
CopyVal == {1} \cup {Ref(c) : c \in Obj}
AfterCopy == top # NoTop /\ res.op \in {"__deepcopy__", "freeze"}
InitCopy ==
    /\ \E f \in [Obj -> SeqsUpTo(CopyVal, MaxLen)] :
          lists = [l \in LId |-> IF l \in Obj THEN f[l] ELSE <<>>]
    /\ _items = [c \in Heap |-> c]
    /\ \E f \in [Obj -> BOOLEAN] :
          _frozen = [c \in Heap |-> IF c \in CopyObj THEN FALSE ELSE f[c]]
    /\ res = [op |-> "__init__", self |-> NObj, arg |-> None, err |-> OK, ret |-> None,
              was |-> FALSE, after_append |-> FALSE]
    /\ pend = NoPend
    /\ froze = {c \in Obj : _frozen[c]}
    /\ ukind = "list"
    /\ NoCopy

NextCopy ==
    \/ \E c \in Obj : deepcopy(c)
    \/ deepcopy_item
    \/ deepcopy_return
    \/ /\ AfterCopy
       /\ \E c \in {top.src, top.dst} :
             \/ \E v \in IntVal : append(c, v)
             \/ pop(c, 0 - 1)
             \/ freeze(c)

SpecCopy == InitCopy /\ [][NextCopy]_vars

\* The work a deep copy in progress has left: the containers not yet in the memo
\* (each costs its items, its entry and its return) and, for every call on the
\* stack, the items not yet copied and the return.
RECURSIVE UnregWeight(_)
UnregWeight(S) ==
    IF S = {} THEN 0
    ELSE LET d == CHOOSE d \in S : TRUE
         IN Len(Items(d)) + 2 + UnregWeight(S \ {d})
RECURSIVE FrameWeight(_)
FrameWeight(k) ==
    IF k = 0 THEN 0
    ELSE (Len(Items(stack[k].self)) - Len(stack[k].acc)) + 1 + FrameWeight(k - 1)
CopyMeasure == UnregWeight({d \in Obj : memo[d] = None}) + FrameWeight(Len(stack))

\* The image of a source item in the copied structure.
Image(v) == IF IsRef(v) THEN Ref(memo[Deref(v)]) ELSE v
\* The copy of the structure of x has the shape of the structure of x: every
\* container reached has its own copy, and the copy's slots hold the same
\* integers and the copies of what the source's slots hold.
SameTopology ==
    LET R == {top.src} \cup Reach(top.src)
    IN /\ top.dst = memo[top.src]
       /\ \A d \in R :
             /\ memo[d] \in CopyObj
             /\ Len(Items(memo[d])) = Len(Items(d))
             /\ \A k \in 1..Len(Items(d)) : Items(memo[d])[k] = Image(Items(d)[k])
       /\ \A d, e \in R : d # e => memo[d] # memo[e]
CopyReturned == res.op = "__deepcopy__" /\ res.err = OK

\* C9: a deep copy always ends (every step of it lessens the work left, and a
\* copy in progress always has a next step), also on a container that contains
\* itself, and the copy has the reference topology of the source.
C9_DeepCopyEndsSameTopology ==
    /\ [](stack # <<>> => ENABLED (deepcopy_item \/ deepcopy_return))
    /\ [](CopyReturned => SameTopology)
    /\ [][res'.op = "__deepcopy__" => CopyMeasure' < CopyMeasure]_vars
\* the copy of a container that reaches itself through another one has returned
C9_Witness ==
    /\ CopyReturned
    /\ top.src \in Reach(top.src)
    /\ Held(top.src) \ {top.src} # {}
    /\ \E d \in Held(top.src) \ {top.src} : top.src \in Held(d)

\* The sources in the memo, and the calls of __deepcopy__ in progress.
Registered == {d \in Obj : memo[d] # None}
Frames == {stack[k] : k \in 1..Len(stack)}

\* C16: a step that begins the copy of a source finds it absent from the memo,
\* and leaves a fresh, empty destination registered for it with no item copied
\* yet; a memo entry once made never changes; so at every moment each call in
\* progress fills the destination the memo holds for its source, no source is
\* being copied twice, and no two sources share a destination.
C16_MemoBeforeItemsOnce ==
    /\ [][/\ Len(stack') > Len(stack) =>
                LET f == stack'[Len(stack')]
                IN /\ memo[f.self] = None
                   /\ f.new \in CopyObj \ Allocated
                   /\ memo'[f.self] = f.new
                   /\ f.acc = <<>>
                   /\ lists'[_items'[f.new]] = <<>>
          /\ \A d \in Registered : memo'[d] = memo[d]]_vars
    /\ [](/\ \A f \in Frames : memo[f.self] = f.new
          /\ \A j, k \in 1..Len(stack) : j # k => stack[j].self # stack[k].self
          /\ \A d, e \in Registered : d # e => memo[d] # memo[e]
          /\ Cardinality(Allocated) = Cardinality(Registered))
\* the copy of a container that holds itself and another container has returned:
\* the slot for itself holds the one destination registered for it
C16_Witness ==
    /\ CopyReturned
    /\ top.src \in Held(top.src)
    /\ Registered = Obj
    /\ \A k \in 1..Len(Items(top.src)) :
          Items(top.src)[k] = Ref(top.src) => Items(top.dst)[k] = Ref(memo[top.src])

\* C10: the copy is another container with the items of x (copied) and the flag
\* of x; copying changes neither the items nor the flag of any source; and
\* afterwards a change of the copy or of the original leaves the other as it was.
C10_CopyIndependentSameFlag ==
    /\ [](CopyReturned =>
            /\ top.dst \in CopyObj
            /\ top.dst # top.src
            /\ _items[top.dst] # _items[top.src]
            /\ _frozen[top.dst] = _frozen[top.src]
            /\ Len(Items(top.dst)) = Len(Items(top.src))
            /\ \A k \in 1..Len(Items(top.src)) :
                  IF IsRef(Items(top.src)[k])
                  THEN Deref(Items(top.dst)[k]) \in CopyObj
                  ELSE Items(top.dst)[k] = Items(top.src)[k])
    /\ [][/\ res'.op = "__deepcopy__" =>
                \A d \in Obj : /\ (lists[_items[d]])' = lists[_items[d]]
                               /\ _frozen'[d] = _frozen[d]
          /\ (top # NoTop /\ res'.op \in MutatorOps \cup {"freeze"}) =>
                \A d \in Heap \ {res'.self} :
                   /\ (lists[_items[d]])' = lists[_items[d]]
                   /\ _frozen'[d] = _frozen[d]]_vars
\* the complete, frozen copy of a frozen container with items has returned
C10_Witness ==
    /\ CopyReturned
    /\ _frozen[top.src]
    /\ _frozen[top.dst]
    /\ Len(Items(top.dst)) = MaxLen

====
